---------------------------- MODULE Spec2Model ----------------------------
(***************************************************************************)
(* A model of the index (critnib, src/unnamed/part_001) and of the LRU     *)
(* replacement policy (vmemcache_repl.c, src/unnamed/part_000) of          *)
(* vmemcache.                                                              *)
(*                                                                         *)
(* The index is modelled structurally: a pointer to a subtree is the       *)
(* subtree itself, NULL is the empty subtree, a tagged leaf pointer is a   *)
(* leaf record.  The policy is modelled as a heap of repl_p_entry records  *)
(* indexed by address, the TAILQ as the sequence of the linked addresses.  *)
(***************************************************************************)
EXTENDS Integers, Sequences, FiniteSets, TLC

(***************************************************************************)
(* Bounds of the model.                                                    *)
(***************************************************************************)
\* the most keys the index holds at a time
MaxLeaves == 3
\* the cache entries (each with its back-pointer slot) the policy is given
NSlots == 3
\* head->max_used, the capacity of the touched buffer: 256 in
\* repl_p_lru_new, scaled down
MaxUsed == 2
\* the number of threads that call the index, and that call the policy
NThreads == 2

(***************************************************************************)
(* Program constants.                                                      *)
(***************************************************************************)
SLICE == 4
NIB == (2 ^ SLICE) - 1
SLNODES == 2 ^ SLICE
\* sizeof(e->key.ksize): ksize is a size_t
SizeofKsize == 8
\* return codes of critnib_set (0 is success)
ENOMEM == 12
EEXIST == 17

VARIABLES
    charSigned,   \* whether plain char is a signed type in this build
    root,         \* struct critnib: root
    c_mutex,      \* struct critnib: mutex ("unlocked" or the owning thread)
    present,      \* history: key region -> entry of its first successful insert
    lastOp,       \* history: the last completed index operation
    rp,           \* struct repl_p_head, the repl_p_entry heap, the callers' slots
    pLast,        \* history: the last completed policy operation
    acct,         \* history: the data attached and the data evicted
    ord,          \* history: the order of the touch calls
    ith,          \* the index call each thread is in
    pth,          \* the policy call each thread is in, with its locals
    touched       \* history: slots whose touch returned since the last drain

ivars == <<charSigned, root, c_mutex, present, lastOp, ith>>
pvars == <<rp, pLast, acct, ord, pth, touched>>
vars == <<charSigned, root, c_mutex, present, lastOp, ith,
          rp, pLast, acct, ord, pth, touched>>

(***************************************************************************)
(* Bytes and bit arithmetic.  A byte of memory is 0..255; a value of type  *)
(* char is -128..127 when char is signed and 0..255 when it is not.        *)
(***************************************************************************)
RECURSIVE BitAnd(_, _), BitXor(_, _)
\* a & b on non-negative integers
BitAnd(a, b) ==
    IF a = 0 \/ b = 0 THEN 0
    ELSE ((a % 2) * (b % 2)) + 2 * BitAnd(a \div 2, b \div 2)

\* a ^ b on non-negative integers
BitXor(a, b) ==
    IF a = 0 THEN b
    ELSE IF b = 0 THEN a
    ELSE ((a + b) % 2) + 2 * BitXor(a \div 2, b \div 2)

\* the char read from a byte of memory
AsChar(u) == IF charSigned /\ u >= 128 THEN u - 256 ELSE u

\* (uint32_t)x of an int x, as its two 16-bit halves (two's complement)
ToUint32(x) ==
    IF x >= 0 THEN [hi |-> (x \div 65536) % 65536, lo |-> x % 65536]
    ELSE [hi |-> 65535 - ((((0 - x) - 1) \div 65536) % 65536),
          lo |-> 65535 - (((0 - x) - 1) % 65536)]

\* index of the most significant set bit of a nonzero 16-bit value
Mssb16(h) == CHOOSE i \in 0..15 : (2 ^ i) <= h /\ h < 2 ^ (i + 1)

\* index of the most significant set bit of a nonzero 32-bit value
util_mssb_index(v) == IF v.hi # 0 THEN 16 + Mssb16(v.hi) ELSE Mssb16(v.lo)

\* (b >> bit) & NIB with b a char promoted to int (arithmetic shift)
slice_index(b, bit) == (b \div (2 ^ bit)) % (NIB + 1)

(***************************************************************************)
(* Cache entries: the key region is ksize (little endian size_t) followed  *)
(* by the ksize key bytes.                                                 *)
(***************************************************************************)
\* the key bytes the callers use: 0x12, 0x13, 0x92, 0xB2 and two keys of
\* two bytes
KeyData == { <<18>>, <<19>>, <<146>>, <<178>>, <<18, 18>>, <<18, 146>> }

\* the keys that a second cache entry carries too
DupKeyData == { <<18>>, <<18, 146>> }

Entries ==
    { [id |-> "a", ksize |-> Len(d), key |-> d] : d \in KeyData }
        \cup { [id |-> "b", ksize |-> Len(d), key |-> d] : d \in DupKeyData }

\* n >> (8 * i)
RECURSIVE ShiftBytes(_, _)
ShiftBytes(n, i) == IF i = 0 THEN n ELSE ShiftBytes(n \div 256, i - 1)

\* the bytes of a size_t in memory
SizeBytes(n) == [i \in 1..SizeofKsize |-> ShiftBytes(n, i - 1) % 256]

\* (void *)&e->key
KeyOf(e) == SizeBytes(e.ksize) \o e.key

\* (byten_t)(e->key.ksize + sizeof(e->key.ksize)); the sizes of the model
\* are far below 2^32, where the cast changes nothing
KeyLenOf(e) == e.ksize + SizeofKsize

KeyRegions == { KeyOf(e) : e \in Entries }

\* key[i] of the C code (0-based), as a char
KeyAt(key, i) == AsChar(key[i + 1])

(***************************************************************************)
(* Trie values.                                                            *)
(***************************************************************************)
NULL == [t |-> "null"]

Leaf(key, key_len, value) ==
    [t |-> "leaf", key |-> key, key_len |-> key_len, value |-> value]

is_leaf(n) == n.t = "leaf"

\* alloc_node: a node with every child NULL
alloc_node == [t |-> "node", child |-> [i \in 0..(SLNODES - 1) |-> NULL],
               byte |-> 0, bit |-> 0]

RECURSIVE any_leaf(_)
any_leaf(n) ==
    IF \A i \in 0..(SLNODES - 1) : n.child[i] = NULL THEN NULL
    ELSE LET i == CHOOSE j \in 0..(SLNODES - 1) :
                      /\ n.child[j] # NULL
                      /\ \A l \in 0..(j - 1) : n.child[l] = NULL
             m == n.child[i]
         IN IF is_leaf(m) THEN m ELSE any_leaf(m)

\* memcmp(a, b, len) == 0
MemEq(a, b, len) == \A i \in 1..len : a[i] = b[i]

(***************************************************************************)
(* critnib_set                                                             *)
(***************************************************************************)
\* first descent: a leaf of the subtree that shares the longest prefix
RECURSIVE FirstDescent(_, _, _)
FirstDescent(n, key, key_len) ==
    IF ~is_leaf(n) /\ n.byte < key_len
    THEN LET nn == n.child[slice_index(KeyAt(key, n.byte), n.bit)]
         IN IF nn # NULL THEN FirstDescent(nn, key, key_len) ELSE any_leaf(n)
    ELSE IF ~is_leaf(n) THEN any_leaf(n) ELSE n

\* the divergence point, accurate to a byte
DiffByte(nk, key, key_len) ==
    LET common_len == IF nk.key_len < key_len THEN nk.key_len ELSE key_len
        differing == { d \in 0..(common_len - 1) : nk.key[d + 1] # key[d + 1] }
    IN IF differing = {} THEN common_len
       ELSE CHOOSE d \in differing : \A x \in differing : d <= x

CommonLen(nk, key_len) == IF nk.key_len < key_len THEN nk.key_len ELSE key_len

\* the divergence point within the byte:
\* char at = a ^ b; sh = util_mssb_index((uint32_t)at) & (bitn_t)~(SLICE - 1)
ShiftOf(a, b) ==
    LET at == AsChar(BitXor(a, b))
    IN BitAnd(util_mssb_index(ToUint32(at)), 255 - (SLICE - 1)) % 256

\* StepsBelow with n->bit > sh for n->bit >= sh
StepsBelow_strict(n, diff, sh) ==
    /\ n # NULL
    /\ ~is_leaf(n)
    /\ (n.byte < diff \/ (n.byte = diff /\ n.bit > sh))

\* whether the second descent steps below n
StepsBelow(n, diff, sh) ==
    /\ n # NULL
    /\ ~is_leaf(n)
    /\ (n.byte < diff \/ (n.byte = diff /\ n.bit >= sh))

\* second descent: *parent when the loop ends
RECURSIVE SecondDescent(_, _, _, _)
SecondDescent(n, key, diff, sh) ==
    IF StepsBelow(n, diff, sh)
    THEN SecondDescent(n.child[slice_index(KeyAt(key, n.byte), n.bit)],
                       key, diff, sh)
    ELSE n

\* the trie after *parent = new, parent being where the second descent ends
RECURSIVE StoreAtParent(_, _, _, _, _)
StoreAtParent(n, key, diff, sh, new) ==
    IF StepsBelow(n, diff, sh)
    THEN LET i == slice_index(KeyAt(key, n.byte), n.bit)
         IN [n EXCEPT !.child[i] =
                 StoreAtParent(n.child[i], key, diff, sh, new)]
    ELSE new

\* SplitNode that indexes both children by the byte of nk
SplitNode_one_slot(old, nk, k, diff, sh) ==
    LET n0 == alloc_node
        n1 == [n0 EXCEPT !.child[slice_index(KeyAt(nk.key, diff), sh)] = old]
        n2 == [n1 EXCEPT !.child[slice_index(KeyAt(nk.key, diff), sh)] = k]
    IN [n2 EXCEPT !.byte = diff, !.bit = sh]

\* SplitNode that puts each child in the slot of the other
SplitNode_swapped(old, nk, k, diff, sh) ==
    LET n0 == alloc_node
        n1 == [n0 EXCEPT !.child[slice_index(KeyAt(k.key, diff), sh)] = old]
        n2 == [n1 EXCEPT !.child[slice_index(KeyAt(nk.key, diff), sh)] = k]
    IN [n2 EXCEPT !.byte = diff, !.bit = sh]

\* the node spliced into the middle of an edge
SplitNode(old, nk, k, diff, sh) ==
    LET n0 == alloc_node
        n1 == [n0 EXCEPT !.child[slice_index(KeyAt(nk.key, diff), sh)] = old]
        n2 == [n1 EXCEPT !.child[slice_index(KeyAt(k.key, diff), sh)] = k]
    IN [n2 EXCEPT !.byte = diff, !.bit = sh]

\* critnib_set that stores the leaf in *parent before it finds that alloc_node
\* failed
critnib_set_early_store(r, e, leafOK, nodeOK) ==
    LET key == KeyOf(e)
        key_len == KeyLenOf(e)
        k == Leaf(key, key_len, e)
    IN IF ~leafOK THEN [ret |-> ENOMEM, root |-> r]
       ELSE IF r = NULL THEN [ret |-> 0, root |-> k]
       ELSE LET nk == FirstDescent(r, key, key_len)
                diff == DiffByte(nk, key, key_len)
            IN IF diff >= CommonLen(nk, key_len)
               THEN [ret |-> EEXIST, root |-> r]
               ELSE LET sh == ShiftOf(nk.key[diff + 1], key[diff + 1])
                        n == SecondDescent(r, key, diff, sh)
                    IN IF n = NULL
                       THEN [ret |-> 0,
                             root |-> StoreAtParent(r, key, diff, sh, k)]
                       ELSE IF ~nodeOK
                       THEN [ret |-> ENOMEM,
                             root |-> StoreAtParent(r, key, diff, sh, k)]
                       ELSE [ret |-> 0,
                             root |-> StoreAtParent(r, key, diff, sh,
                                         SplitNode(n, nk, k, diff, sh))]

\* critnib_set(c, e): [ret, root]; leafOK and nodeOK say whether alloc_leaf
\* and alloc_node succeed
critnib_set(r, e, leafOK, nodeOK) ==
    LET key == KeyOf(e)
        key_len == KeyLenOf(e)
        k == Leaf(key, key_len, e)
    IN IF ~leafOK THEN [ret |-> ENOMEM, root |-> r]
       ELSE IF r = NULL THEN [ret |-> 0, root |-> k]
       ELSE LET nk == FirstDescent(r, key, key_len)
                diff == DiffByte(nk, key, key_len)
            IN IF diff >= CommonLen(nk, key_len)
               THEN [ret |-> EEXIST, root |-> r]
               ELSE LET sh == ShiftOf(nk.key[diff + 1], key[diff + 1])
                        n == SecondDescent(r, key, diff, sh)
                    IN IF n = NULL
                       THEN [ret |-> 0,
                             root |-> StoreAtParent(r, key, diff, sh, k)]
                       ELSE IF ~nodeOK
                       THEN [ret |-> ENOMEM, root |-> r]
                       ELSE [ret |-> 0,
                             root |-> StoreAtParent(r, key, diff, sh,
                                         SplitNode(n, nk, k, diff, sh))]

(***************************************************************************)
(* critnib_get                                                             *)
(***************************************************************************)
RECURSIVE critnib_get(_, _)
critnib_get(n, e) ==
    LET key == KeyOf(e)
        key_len == KeyLenOf(e)
    IN IF n = NULL THEN NULL
       ELSE IF ~is_leaf(n)
       THEN IF n.byte >= key_len THEN NULL
            ELSE critnib_get(
                     n.child[slice_index(KeyAt(key, n.byte), n.bit)], e)
       ELSE IF key_len # n.key_len \/ ~MemEq(key, n.key, key_len) THEN NULL
       ELSE n.value

(***************************************************************************)
(* critnib_remove                                                          *)
(***************************************************************************)
\* the number of non-NULL children of a node
NumChildren(n) == Cardinality({ i \in 0..(SLNODES - 1) : n.child[i] # NULL })

\* the only child of a node that has one child left
OnlyChild(n) ==
    n.child[CHOOSE i \in 0..(SLNODES - 1) : n.child[i] # NULL]

\* the leaf the get-descent of critnib_remove ends at, NULL when it gives up
RECURSIVE RemoveFind(_, _, _)
RemoveFind(n, key, key_len) ==
    IF n = NULL THEN NULL
    ELSE IF ~is_leaf(n)
    THEN IF n.byte >= key_len THEN NULL
         ELSE RemoveFind(n.child[slice_index(KeyAt(key, n.byte), n.bit)],
                         key, key_len)
    ELSE IF key_len # n.key_len \/ ~MemEq(key, n.key, key_len) THEN NULL
    ELSE n

\* RemoveUnlink with *pp = NULL for *pp = only_child
RECURSIVE RemoveUnlink_drop(_, _)
RemoveUnlink_drop(n, key) ==
    IF is_leaf(n) THEN NULL
    ELSE LET i == slice_index(KeyAt(key, n.byte), n.bit)
             c == n.child[i]
         IN IF is_leaf(c)
            THEN LET m == [n EXCEPT !.child[i] = NULL]
                 IN IF NumChildren(m) <= 1 THEN NULL ELSE m
            ELSE [n EXCEPT !.child[i] = RemoveUnlink_drop(c, key)]

\* RemoveUnlink that leaves a node with a single child in place
RECURSIVE RemoveUnlink_keep(_, _)
RemoveUnlink_keep(n, key) ==
    IF is_leaf(n) THEN NULL
    ELSE LET i == slice_index(KeyAt(key, n.byte), n.bit)
             c == n.child[i]
         IN IF is_leaf(c)
            THEN LET m == [n EXCEPT !.child[i] = NULL]
                 IN IF NumChildren(m) = 0 THEN NULL ELSE m
            ELSE [n EXCEPT !.child[i] = RemoveUnlink_keep(c, key)]

\* the subtree n after *parent = NULL and, when the leaf's parent node is
\* left with a single child, *pp = only_child
RECURSIVE RemoveUnlink(_, _)
RemoveUnlink(n, key) ==
    IF is_leaf(n) THEN NULL
    ELSE LET i == slice_index(KeyAt(key, n.byte), n.bit)
             c == n.child[i]
         IN IF is_leaf(c)
            THEN LET m == [n EXCEPT !.child[i] = NULL]
                 IN IF NumChildren(m) = 0 THEN NULL
                    ELSE IF NumChildren(m) = 1 THEN OnlyChild(m)
                    ELSE m
            ELSE [n EXCEPT !.child[i] = RemoveUnlink(c, key)]

\* critnib_remove(c, e): [ret, root]
critnib_remove(r, e) ==
    LET key == KeyOf(e)
        key_len == KeyLenOf(e)
        k == RemoveFind(r, key, key_len)
    IN IF k = NULL THEN [ret |-> NULL, root |-> r]
       ELSE [ret |-> k.value, root |-> RemoveUnlink(r, key)]

(***************************************************************************)
(* The index used by one thread: every call runs to its return.            *)
(***************************************************************************)
NoOp == [op |-> "new", e |-> NULL, ret |-> NULL]

\* the threads that call the index, and a thread that is in no call
IThreads == 1..NThreads
NoCall == [pc |-> "idle", e |-> NULL, alloc |-> "ok"]

IndexInit ==
    /\ charSigned \in BOOLEAN
    /\ root = NULL
    /\ c_mutex = "unlocked"
    /\ present = [k \in KeyRegions |-> NULL]
    /\ lastOp = NoOp
    /\ ith = [t \in IThreads |-> NoCall]

\* the index when only the policy is exercised
IndexIdle ==
    /\ charSigned = TRUE
    /\ root = NULL
    /\ c_mutex = "unlocked"
    /\ present = [k \in KeyRegions |-> NULL]
    /\ lastOp = NoOp
    /\ ith = [t \in IThreads |-> NoCall]

\* the outcomes of the allocations of one critnib_set
AllocOutcomes == {"ok", "no_leaf", "no_node"}

NumPresent == Cardinality({ k \in KeyRegions : present[k] # NULL })

\* critnib_set(c, e); os_mutex_unlock is the only mutex call it makes
Set(e, alloc) ==
    LET r == critnib_set(root, e, alloc # "no_leaf", alloc # "no_node")
    IN /\ NumPresent < MaxLeaves \/ present[KeyOf(e)] # NULL
       /\ root' = r.root
       /\ c_mutex' = "unlocked"
       /\ present' = IF r.ret = 0 THEN [present EXCEPT ![KeyOf(e)] = e]
                      ELSE present
       /\ lastOp' = [op |-> "set_" \o alloc, e |-> e, ret |-> r.ret]
       /\ UNCHANGED <<charSigned, ith, pvars>>

\* critnib_get(c, e)
Get(e) ==
    /\ c_mutex' = "unlocked"
    /\ lastOp' = [op |-> "get", e |-> e, ret |-> critnib_get(root, e)]
    /\ UNCHANGED <<charSigned, root, present, ith, pvars>>

\* critnib_remove(c, e)
Remove(e) ==
    LET r == critnib_remove(root, e)
    IN /\ root' = r.root
       /\ c_mutex' = "unlocked"
       /\ present' = [present EXCEPT ![KeyOf(e)] = NULL]
       /\ lastOp' = [op |-> "remove", e |-> e, ret |-> r.ret]
       /\ UNCHANGED <<charSigned, ith, pvars>>

InsertNext ==
    \/ \E e \in Entries, alloc \in AllocOutcomes : Set(e, alloc)
    \/ \E e \in Entries : Get(e)

IndexNext ==
    \/ \E e \in Entries, alloc \in AllocOutcomes : Set(e, alloc)
    \/ \E e \in Entries : Get(e)
    \/ \E e \in Entries : Remove(e)

(***************************************************************************)
(* The divergence point within a byte, as critnib_set computes it, for one *)
(* pair of differing key bytes.                                            *)
(***************************************************************************)
Bytes == 0..255

\* char at = nk->key[diff] ^ key[diff]; sh = util_mssb_index(...) & ...
Shift(a, b) ==
    /\ lastOp' = [op |-> "shift", e |-> <<a, b>>, ret |-> ShiftOf(a, b)]
    /\ UNCHANGED <<charSigned, root, c_mutex, present, ith, pvars>>

\* one pair is tried in a run
ShiftNext ==
    /\ lastOp.op = "new"
    /\ \E a, b \in Bytes : a # b /\ Shift(a, b)

(***************************************************************************)
(* The index used by several threads.  A call is two steps: its entry, up  *)
(* to and with the mutex call it makes there, and its trie section, from   *)
(* the read of c->root to its return.  The mutex call at the entry of all  *)
(* three is os_mutex_unlock; nothing locks c->mutex, so the unlock leaves  *)
(* it unlocked and no caller ever waits.                                   *)
(***************************************************************************)
\* the entries the threads use
ConcEntries == { e \in Entries : e.id = "a" /\ e.ksize = 1 }

\* critnib_set up to os_mutex_unlock; it returns ENOMEM before the mutex call
\* when alloc_leaf fails
SetEnter(t, e, alloc) ==
    /\ ith[t].pc = "idle"
    /\ NumPresent < MaxLeaves \/ present[KeyOf(e)] # NULL
    /\ IF alloc = "no_leaf"
       THEN /\ lastOp' = [op |-> "set_" \o alloc, e |-> e, ret |-> ENOMEM]
            /\ UNCHANGED <<c_mutex, ith>>
       ELSE /\ c_mutex' = "unlocked"
            /\ ith' = [ith EXCEPT ![t] = [pc |-> "set", e |-> e,
                                          alloc |-> alloc]]
            /\ UNCHANGED lastOp
    /\ UNCHANGED <<charSigned, root, present, pvars>>

\* the trie section of critnib_set
SetSection(t) ==
    LET c == ith[t]
        r == critnib_set(root, c.e, TRUE, c.alloc # "no_node")
    IN /\ c.pc = "set"
       /\ root' = r.root
       /\ c_mutex' = "unlocked"
       /\ present' = IF r.ret = 0 THEN [present EXCEPT ![KeyOf(c.e)] = c.e]
                      ELSE present
       /\ lastOp' = [op |-> "set_" \o c.alloc, e |-> c.e, ret |-> r.ret]
       /\ ith' = [ith EXCEPT ![t] = NoCall]
       /\ UNCHANGED <<charSigned, pvars>>

\* critnib_get up to os_mutex_unlock
GetEnter(t, e) ==
    /\ ith[t].pc = "idle"
    /\ c_mutex' = "unlocked"
    /\ ith' = [ith EXCEPT ![t] = [pc |-> "get", e |-> e, alloc |-> "ok"]]
    /\ UNCHANGED <<charSigned, root, present, lastOp, pvars>>

\* the trie section of critnib_get
GetSection(t) ==
    LET c == ith[t]
    IN /\ c.pc = "get"
       /\ lastOp' = [op |-> "get", e |-> c.e, ret |-> critnib_get(root, c.e)]
       /\ ith' = [ith EXCEPT ![t] = NoCall]
       /\ UNCHANGED <<charSigned, root, c_mutex, present, pvars>>

\* critnib_remove up to os_mutex_unlock
RemoveEnter(t, e) ==
    /\ ith[t].pc = "idle"
    /\ c_mutex' = "unlocked"
    /\ ith' = [ith EXCEPT ![t] = [pc |-> "remove", e |-> e, alloc |-> "ok"]]
    /\ UNCHANGED <<charSigned, root, present, lastOp, pvars>>

\* the trie section of critnib_remove
RemoveSection(t) ==
    LET c == ith[t]
        r == critnib_remove(root, c.e)
    IN /\ c.pc = "remove"
       /\ root' = r.root
       /\ c_mutex' = "unlocked"
       /\ present' = [present EXCEPT ![KeyOf(c.e)] = NULL]
       /\ lastOp' = [op |-> "remove", e |-> c.e, ret |-> r.ret]
       /\ ith' = [ith EXCEPT ![t] = NoCall]
       /\ UNCHANGED <<charSigned, pvars>>

IndexConcNext ==
    \/ \E t \in IThreads, e \in ConcEntries, alloc \in AllocOutcomes :
           SetEnter(t, e, alloc)
    \/ \E t \in IThreads : SetSection(t)
    \/ \E t \in IThreads, e \in ConcEntries : GetEnter(t, e)
    \/ \E t \in IThreads : GetSection(t)
    \/ \E t \in IThreads, e \in ConcEntries : RemoveEnter(t, e)
    \/ \E t \in IThreads : RemoveSection(t)

(***************************************************************************)
(* The replacement policy.  A repl_p_entry pointer is an address in Addrs, *)
(* 0 is the NULL pointer; the cache entry s owns the back-pointer slot s   *)
(* and is the data attached with it.                                       *)
(***************************************************************************)
Slots == 1..NSlots
Addrs == 1..NSlots
UsedIdx == 0..(MaxUsed - 1)

\* the cache entry (element) that owns slot s
DataOf(s) == 100 + s

\* memory that holds no repl_p_entry (its content is indeterminate)
NoEntry == [alloc |-> FALSE, data |-> 0, ptr_entry |-> 0, was_used |-> 0,
            i_used |-> 0]

\* repl_p_lru_new; the callers zero their slots; given holds the slots whose
\* cache entry the callers have handed to attach
repl_p_lru_new ==
    [first |-> <<>>,
     max_used |-> MaxUsed,
     n_used |-> 0,
     used |-> [i \in UsedIdx |-> 0],
     lock |-> "unlocked",
     ent |-> [a \in Addrs |-> NoEntry],
     slot |-> [s \in Slots |-> 0],
     given |-> {},
     fault |-> "none"]

\* TAILQ
InList(l, e) == \E i \in 1..Len(l) : l[i] = e
TAILQ_FIRST(l) == IF l = <<>> THEN 0 ELSE Head(l)
TAILQ_INSERT_TAIL(l, e) == Append(l, e)
TAILQ_REMOVE(l, e) == SelectSeq(l, LAMBDA x : x # e)
TAILQ_MOVE_TO_TAIL(l, e) == Append(SelectSeq(l, LAMBDA x : x # e), e)

\* Zalloc(sizeof(struct repl_p_entry)): the free address the allocator gives
Zalloc(p) == CHOOSE a \in Addrs :
                 /\ ~p.ent[a].alloc
                 /\ \A b \in Addrs : ~p.ent[b].alloc => a <= b

\* ClearSlot without TAILQ_MOVE_TO_TAIL
ClearSlot_no_move(p, i) ==
    LET e == p.used[i]
    IN IF e = 0 THEN p
       ELSE [p EXCEPT !.ent[e].was_used = 0, !.used[i] = 0]

\* one turn of the loop of clear_used_array
ClearSlot(p, i) ==
    LET e == p.used[i]
    IN IF e = 0 THEN p
       ELSE IF ~p.ent[e].alloc THEN [p EXCEPT !.fault = "use_after_free"]
       ELSE IF ~InList(p.first, e) THEN [p EXCEPT !.fault = "not_linked"]
       ELSE [p EXCEPT !.first = TAILQ_MOVE_TO_TAIL(p.first, e),
                      !.ent[e].was_used = 0,
                      !.used[i] = 0]

RECURSIVE ClearLoop(_, _, _)
ClearLoop(p, i, max) ==
    IF i >= max \/ p.fault # "none" THEN p
    ELSE ClearLoop(ClearSlot(p, i), i + 1, max)

\* clear_used_array(head)
clear_used_array(p) ==
    LET max == IF p.n_used < p.max_used THEN p.n_used ELSE p.max_used
        q == ClearLoop(p, 0, max)
    IN IF q.fault # "none" THEN q ELSE [q EXCEPT !.n_used = 0]

\* repl_p_lru_insert that links the entry at the head of the list
repl_p_lru_insert_head(p, element, s, allocOK) ==
    IF ~allocOK THEN [p |-> p, ret |-> 0]
    ELSE LET entry == Zalloc(p)
         IN [p |-> [p EXCEPT
                       !.ent[entry] = [alloc |-> TRUE, data |-> element,
                                       ptr_entry |-> s, was_used |-> 0,
                                       i_used |-> 0],
                       !.slot[s] = entry,
                       !.first = <<entry>> \o p.first,
                       !.given = @ \cup {s}],
             ret |-> entry]

\* repl_p_lru_insert(head, element, ptr_entry), run to its return
repl_p_lru_insert(p, element, s, allocOK) ==
    IF ~allocOK THEN [p |-> p, ret |-> 0]
    ELSE LET entry == Zalloc(p)
         IN [p |-> [p EXCEPT
                       !.ent[entry] = [alloc |-> TRUE, data |-> element,
                                       ptr_entry |-> s, was_used |-> 0,
                                       i_used |-> 0],
                       !.slot[s] = entry,
                       !.first = TAILQ_INSERT_TAIL(p.first, entry),
                       !.given = @ \cup {s}],
             ret |-> entry]

\* get_used_index(head), run to its return: [p, index]
get_used_index(p) ==
    LET index == p.n_used
        p1 == [p EXCEPT !.n_used = p.n_used + 1]
    IN IF index > p1.max_used - 1
       THEN LET p2 == IF p1.n_used >= p1.max_used
                      THEN clear_used_array(p1) ELSE p1
            IN [p |-> [p2 EXCEPT !.n_used = p2.n_used + 1],
                index |-> p2.n_used, drained |-> p1.n_used >= p1.max_used]
       ELSE [p |-> p1, index |-> index, drained |-> FALSE]

\* repl_p_lru_use(head, ptr_entry), run to its return
repl_p_lru_use(p, s) ==
    LET entry == p.slot[s]
    IN IF entry = 0 THEN [p |-> p, drained |-> FALSE]
       ELSE IF p.ent[entry].was_used # 0 THEN [p |-> p, drained |-> FALSE]
       ELSE LET p1 == [p EXCEPT !.ent[entry].was_used = 1]
                g == get_used_index(p1)
                p2 == [g.p EXCEPT !.ent[entry].i_used = g.index]
                p3 == [p2 EXCEPT !.used[p2.ent[entry].i_used] = entry]
                p4 == IF p3.ent[entry].was_used = 1
                      THEN [p3 EXCEPT !.ent[entry].was_used = 2]
                      ELSE [p3 EXCEPT !.fault = "abort"]
            IN [p |-> p4, drained |-> g.drained]

\* repl_p_lru_evict without TAILQ_REMOVE
repl_p_lru_evict_keeps_link(p, s) ==
    LET p1 == IF s = 0 /\ p.n_used > 0 THEN clear_used_array(p) ELSE p
        entry == IF s # 0 THEN p1.slot[s] ELSE TAILQ_FIRST(p1.first)
        drained == s = 0 /\ p.n_used > 0
    IN IF entry = 0 THEN [p |-> p1, ret |-> 0, drained |-> drained]
       ELSE LET p2 == [p1 EXCEPT !.slot[p1.ent[entry].ptr_entry] = 0]
                p3 == IF p2.ent[entry].was_used = 2
                      THEN [p2 EXCEPT !.used[p2.ent[entry].i_used] = 0]
                      ELSE p2
            IN [p |-> [p3 EXCEPT !.ent[entry] = NoEntry],
                ret |-> p3.ent[entry].data, drained |-> drained]

\* repl_p_lru_evict without *(entry->ptr_entry) = NULL
repl_p_lru_evict_keeps_slot(p, s) ==
    LET p1 == IF s = 0 /\ p.n_used > 0 THEN clear_used_array(p) ELSE p
        entry == IF s # 0 THEN p1.slot[s] ELSE TAILQ_FIRST(p1.first)
        drained == s = 0 /\ p.n_used > 0
    IN IF entry = 0 THEN [p |-> p1, ret |-> 0, drained |-> drained]
       ELSE LET p2 == [p1 EXCEPT !.first = TAILQ_REMOVE(p1.first, entry)]
                p3 == IF p2.ent[entry].was_used = 2
                      THEN [p2 EXCEPT !.used[p2.ent[entry].i_used] = 0]
                      ELSE p2
            IN [p |-> [p3 EXCEPT !.ent[entry] = NoEntry],
                ret |-> p3.ent[entry].data, drained |-> drained]

\* repl_p_lru_evict that leaves the entry in the touched buffer
repl_p_lru_evict_keeps_used(p, s) ==
    LET p1 == IF s = 0 /\ p.n_used > 0 THEN clear_used_array(p) ELSE p
        entry == IF s # 0 THEN p1.slot[s] ELSE TAILQ_FIRST(p1.first)
        drained == s = 0 /\ p.n_used > 0
    IN IF entry = 0 THEN [p |-> p1, ret |-> 0, drained |-> drained]
       ELSE LET p2 == [p1 EXCEPT !.first = TAILQ_REMOVE(p1.first, entry),
                                 !.slot[p1.ent[entry].ptr_entry] = 0]
            IN [p |-> [p2 EXCEPT !.ent[entry] = NoEntry],
                ret |-> p2.ent[entry].data, drained |-> drained]

\* repl_p_lru_evict(head, ptr_entry), run to its return; s = 0 is the NULL
\* ptr_entry
repl_p_lru_evict(p, s) ==
    LET p1 == IF s = 0 /\ p.n_used > 0 THEN clear_used_array(p) ELSE p
        entry == IF s # 0 THEN p1.slot[s] ELSE TAILQ_FIRST(p1.first)
        drained == s = 0 /\ p.n_used > 0
    IN IF entry = 0 THEN [p |-> p1, ret |-> 0, drained |-> drained]
       ELSE LET p2 == [p1 EXCEPT !.first = TAILQ_REMOVE(p1.first, entry),
                                 !.slot[p1.ent[entry].ptr_entry] = 0]
                p3 == IF p2.ent[entry].was_used = 2
                      THEN [p2 EXCEPT !.used[p2.ent[entry].i_used] = 0]
                      ELSE p2
            IN [p |-> [p3 EXCEPT !.ent[entry] = NoEntry],
                ret |-> p3.ent[entry].data, drained |-> drained]

(***************************************************************************)
(* The policy used by one thread: every call runs to its return.           *)
(***************************************************************************)
\* s moved to the end of the sequence q (appended when it is not in q)
MoveToEnd(q, s) == Append(SelectSeq(q, LAMBDA x : x # s), s)
Without(q, s) == SelectSeq(q, LAMBDA x : x # s)
Elems(q) == { q[i] : i \in 1..Len(q) }

\* the slot of the cache entry whose data is d (0 for no data)
SlotOfData(d) == IF d = 0 THEN 0 ELSE d - 100

\* the slot of the node at the head of the list (0 when the list is empty)
HeadSlot(p) == IF p.first = <<>> THEN 0 ELSE p.ent[Head(p.first)].ptr_entry

NoAcct ==
    [attached |-> <<>>,   \* the data attached
     evicted |-> <<>>]    \* the data the evicts returned

NoOrd ==
    [lastTouch |-> <<>>,  \* the attached slots, by their last touch call
     effTouch |-> <<>>,   \* the attached slots, by their last touch call that
                          \* was the first one since the drain before it
     since |-> {},        \* the attached slots touched since the last drain
     drainHead |-> 0]     \* the slot of the list head when the drain of the
                          \* last call ended

NoPolicyOp == [op |-> "new", slot |-> 0, ret |-> 0, drained |-> FALSE]

\* the threads that call the policy, and a thread that is in no call
PThreads == 1..NThreads
NoPolicyCall == [pc |-> "idle", s |-> 0, entry |-> 0, index |-> 0]

PolicyInit ==
    /\ rp = repl_p_lru_new
    /\ pLast = NoPolicyOp
    /\ acct = NoAcct
    /\ ord = NoOrd
    /\ pth = [t \in PThreads |-> NoPolicyCall]
    /\ touched = {}

\* attach: repl_p_lru_insert(head, element, ptr_entry) with the slot s of the
\* cache entry element; a cache entry is attached once
Attach(s, allocOK) ==
    LET r == repl_p_lru_insert(rp, DataOf(s), s, allocOK)
    IN /\ s \notin rp.given
       /\ rp' = r.p
       /\ pLast' = [op |-> "insert", slot |-> s, ret |-> r.ret,
                    drained |-> FALSE]
       /\ UNCHANGED <<ivars, pth, touched>>

\* touch: repl_p_lru_use(head, ptr_entry)
Use(s) ==
    LET r == repl_p_lru_use(rp, s)
    IN /\ rp' = r.p
       /\ pLast' = [op |-> "use", slot |-> s, ret |-> 0,
                    drained |-> r.drained]
       /\ UNCHANGED <<ivars, pth, touched>>

\* evict: repl_p_lru_evict(head, ptr_entry); s = 0 is evict(NULL)
Evict(s) ==
    LET r == repl_p_lru_evict(rp, s)
    IN /\ rp' = r.p
       /\ pLast' = [op |-> "evict", slot |-> s, ret |-> r.ret,
                    drained |-> r.drained]
       /\ UNCHANGED <<ivars, pth, touched>>

\* attach and evict(NULL) only
FifoNext ==
    \/ \E s \in Slots, allocOK \in BOOLEAN : Attach(s, allocOK)
    \/ Evict(0)

PolicyNext ==
    \/ \E s \in Slots, allocOK \in BOOLEAN : Attach(s, allocOK)
    \/ \E s \in Slots : Use(s)
    \/ \E s \in Slots \cup {0} : Evict(s)

\* the history of the data attached and evicted, in the order of the calls,
\* kept from what the calls were given and returned
FifoObserve ==
    acct' = [attached |->
                 IF pLast'.op = "insert" /\ pLast'.ret # 0
                 THEN Append(acct.attached, DataOf(pLast'.slot))
                 ELSE acct.attached,
             evicted |->
                 IF pLast'.op = "evict" /\ pLast'.ret # 0
                 THEN Append(acct.evicted, pLast'.ret)
                 ELSE acct.evicted]

\* d entered in the ascending sequence q (a bag: equal data are kept)
SortedInsert(q, d) ==
    LET k == Cardinality({ i \in 1..Len(q) : q[i] <= d })
    IN SubSeq(q, 1, k) \o <<d>> \o SubSeq(q, k + 1, Len(q))

\* the history of the data attached and evicted as bags, kept from what the
\* calls were given and returned
AcctObserve ==
    acct' = [attached |->
                 IF pLast'.op = "insert" /\ pLast'.ret # 0
                 THEN SortedInsert(acct.attached, DataOf(pLast'.slot))
                 ELSE acct.attached,
             evicted |->
                 IF pLast'.op = "evict" /\ pLast'.ret # 0
                 THEN SortedInsert(acct.evicted, pLast'.ret)
                 ELSE acct.evicted]

\* the history of the touch calls on attached slots and of the drains
OrdObserve ==
    LET s == pLast'.slot
        touch == pLast'.op = "use" /\ rp.slot[s] # 0
        gone == IF pLast'.op = "evict" THEN SlotOfData(pLast'.ret) ELSE 0
        since0 == IF pLast'.drained THEN {} ELSE ord.since
    IN ord' = [lastTouch |->
                   IF touch THEN MoveToEnd(ord.lastTouch, s)
                   ELSE Without(ord.lastTouch, gone),
               effTouch |->
                   IF touch /\ s \notin ord.since
                   THEN MoveToEnd(ord.effTouch, s)
                   ELSE Without(ord.effTouch, gone),
               since |->
                   IF touch THEN since0 \cup {s} ELSE since0 \ {gone},
               drainHead |->
                   IF ~pLast'.drained THEN 0
                   ELSE IF pLast'.op = "evict" THEN gone
                   ELSE HeadSlot(rp')]

(***************************************************************************)
(* The policy used by several threads.  A step is one access to the shared *)
(* memory, or a run of accesses to memory no other thread can reach.       *)
(* util_mutex_lock is one step with what follows it up to the next access  *)
(* that a thread without the lock can see or disturb: the lock is taken    *)
(* when it is free, and taking it changes nothing for the other threads    *)
(* but that they wait for it.  An access to freed memory, a list operation *)
(* on a node that is not linked, a store past the end of head->used and    *)
(* abort() end the run: rp.fault names what happened.                      *)
(***************************************************************************)
Running == rp.fault = "none"

Goto(t, pc) == [pth EXCEPT ![t].pc = pc]
Return(t) == [pth EXCEPT ![t] = NoPolicyCall]

UsePcs == {"use_cas01", "use_fetch", "use_clear", "use_refetch",
           "use_store", "use_cas12"}

\* the slots of the touch calls that have not returned
InFlight == { pth[t].s : t \in { u \in PThreads : pth[u].pc \in UsePcs } }

\* repl_p_lru_insert: Zalloc, the stores to the new entry and the store of
\* the entry to the caller's slot
InsertAlloc(t, s, allocOK) ==
    /\ Running /\ pth[t].pc = "idle"
    /\ s \notin rp.given
    /\ IF ~allocOK
       THEN UNCHANGED <<rp, pth>>
       ELSE LET entry == Zalloc(rp)
            IN /\ rp' = [rp EXCEPT
                            !.ent[entry] = [alloc |-> TRUE, data |-> DataOf(s),
                                            ptr_entry |-> s, was_used |-> 0,
                                            i_used |-> 0],
                            !.slot[s] = entry,
                            !.given = @ \cup {s}]
               /\ pth' = [pth EXCEPT ![t] = [pc |-> "insert_link", s |-> s,
                                              entry |-> entry, index |-> 0]]
    /\ UNCHANGED <<ivars, pLast, acct, ord, touched>>

\* repl_p_lru_insert: util_mutex_lock, TAILQ_INSERT_TAIL, util_mutex_unlock,
\* return
InsertLink(t) ==
    /\ Running /\ pth[t].pc = "insert_link"
    /\ rp.lock = "unlocked"
    /\ rp' = [rp EXCEPT !.first = TAILQ_INSERT_TAIL(rp.first, pth[t].entry)]
    /\ pth' = Return(t)
    /\ UNCHANGED <<ivars, pLast, acct, ord, touched>>

\* repl_p_lru_use: entry = *ptr_entry, return when it is NULL
UseRead(t, s) ==
    /\ Running /\ pth[t].pc = "idle"
    /\ IF rp.slot[s] = 0
       THEN UNCHANGED pth
       ELSE pth' = [pth EXCEPT ![t] = [pc |-> "use_cas01", s |-> s,
                                       entry |-> rp.slot[s], index |-> 0]]
    /\ UNCHANGED <<ivars, rp, pLast, acct, ord, touched>>

\* repl_p_lru_use: compare_and_swap(&entry->was_used, 0, 1), return when it
\* fails
UseCas01(t) ==
    LET entry == pth[t].entry
    IN /\ Running /\ pth[t].pc = "use_cas01"
       /\ IF ~rp.ent[entry].alloc
          THEN /\ rp' = [rp EXCEPT !.fault = "touch_after_free"]
               /\ pth' = Goto(t, "fault")
               /\ UNCHANGED touched
          ELSE IF rp.ent[entry].was_used = 0
          THEN /\ rp' = [rp EXCEPT !.ent[entry].was_used = 1]
               /\ pth' = Goto(t, "use_fetch")
               /\ UNCHANGED touched
          ELSE /\ pth' = Return(t)
               /\ touched' = touched \cup {pth[t].s}
               /\ UNCHANGED rp
       /\ UNCHANGED <<ivars, pLast, acct, ord>>

\* get_used_index: the first fetch_and_add(&head->n_used, 1)
UseFetch(t) ==
    LET index == rp.n_used
    IN /\ Running /\ pth[t].pc = "use_fetch"
       /\ rp' = [rp EXCEPT !.n_used = @ + 1]
       /\ pth' = [pth EXCEPT ![t].index = index,
                             ![t].pc = IF index > rp.max_used - 1
                                       THEN "use_clear" ELSE "use_store"]
       /\ UNCHANGED <<ivars, pLast, acct, ord, touched>>

\* get_used_index: util_mutex_lock, clear_used_array when
\* n_used >= max_used
UseClear(t) ==
    LET drain == rp.n_used >= rp.max_used
        p1 == IF drain THEN clear_used_array(rp) ELSE rp
    IN /\ Running /\ pth[t].pc = "use_clear"
       /\ rp.lock = "unlocked"
       /\ rp' = [p1 EXCEPT !.lock = "locked"]
       /\ pth' = Goto(t, IF p1.fault # "none" THEN "fault" ELSE "use_refetch")
       /\ touched' = IF drain THEN {} ELSE touched
       /\ UNCHANGED <<ivars, pLast, acct, ord>>

\* get_used_index: the second fetch_and_add, util_mutex_unlock
UseRefetch(t) ==
    /\ Running /\ pth[t].pc = "use_refetch"
    /\ rp' = [rp EXCEPT !.n_used = @ + 1, !.lock = "unlocked"]
    /\ pth' = [pth EXCEPT ![t].index = rp.n_used, ![t].pc = "use_store"]
    /\ UNCHANGED <<ivars, pLast, acct, ord, touched>>

\* repl_p_lru_use: entry->i_used = index, head->used[entry->i_used] = entry
UseStore(t) ==
    LET entry == pth[t].entry
        index == pth[t].index
    IN /\ Running /\ pth[t].pc = "use_store"
       /\ IF ~rp.ent[entry].alloc
          THEN /\ rp' = [rp EXCEPT !.fault = "touch_after_free"]
               /\ pth' = Goto(t, "fault")
          ELSE IF index \notin UsedIdx
          THEN /\ rp' = [rp EXCEPT !.ent[entry].i_used = index,
                                   !.fault = "out_of_bounds"]
               /\ pth' = Goto(t, "fault")
          ELSE /\ rp' = [rp EXCEPT !.ent[entry].i_used = index,
                                   !.used[index] = entry]
               /\ pth' = Goto(t, "use_cas12")
       /\ UNCHANGED <<ivars, pLast, acct, ord, touched>>

\* repl_p_lru_use: compare_and_swap(&entry->was_used, 1, 2), abort() when
\* it fails, return
UseCas12(t) ==
    LET entry == pth[t].entry
    IN /\ Running /\ pth[t].pc = "use_cas12"
       /\ IF ~rp.ent[entry].alloc
          THEN /\ rp' = [rp EXCEPT !.fault = "touch_after_free"]
               /\ pth' = Goto(t, "fault")
               /\ UNCHANGED touched
          ELSE IF rp.ent[entry].was_used = 1
          THEN /\ rp' = [rp EXCEPT !.ent[entry].was_used = 2]
               /\ pth' = Return(t)
               /\ touched' = touched \cup {pth[t].s}
          ELSE /\ rp' = [rp EXCEPT !.fault = "abort"]
               /\ pth' = Goto(t, "fault")
               /\ UNCHANGED touched
       /\ UNCHANGED <<ivars, pLast, acct, ord>>

\* repl_p_lru_evict from util_mutex_lock to util_mutex_unlock; it returns
\* NULL when there is no entry; s = 0 is evict(NULL)
EvictUnlink(t, s) ==
    LET drain == s = 0 /\ rp.n_used > 0
        p1 == IF drain THEN clear_used_array(rp) ELSE rp
        entry == IF s # 0 THEN p1.slot[s] ELSE TAILQ_FIRST(p1.first)
    IN /\ Running /\ pth[t].pc = "idle"
       /\ rp.lock = "unlocked"
       /\ IF p1.fault # "none"
          THEN rp' = p1 /\ pth' = Goto(t, "fault")
          ELSE IF entry = 0
          THEN rp' = p1 /\ UNCHANGED pth
          ELSE IF ~InList(p1.first, entry)
          THEN rp' = [p1 EXCEPT !.fault = "not_linked"]
               /\ pth' = Goto(t, "fault")
          ELSE LET p2 == [p1 EXCEPT
                             !.first = TAILQ_REMOVE(p1.first, entry),
                             !.slot[p1.ent[entry].ptr_entry] = 0]
                   p3 == IF p2.ent[entry].was_used = 2
                         THEN [p2 EXCEPT !.used[p2.ent[entry].i_used] = 0]
                         ELSE p2
               IN /\ rp' = p3
                  /\ pth' = [pth EXCEPT ![t] = [pc |-> "evict_free",
                                                s |-> s, entry |-> entry,
                                                index |-> 0]]
       /\ touched' = IF s = 0 THEN {} ELSE touched
       /\ UNCHANGED <<ivars, pLast, acct, ord>>

\* repl_p_lru_evict: data = entry->data, Free(entry), return data
EvictFree(t) ==
    /\ Running /\ pth[t].pc = "evict_free"
    /\ rp' = [rp EXCEPT !.ent[pth[t].entry] = NoEntry]
    /\ pth' = Return(t)
    /\ UNCHANGED <<ivars, pLast, acct, ord, touched>>

PolicyConcNext ==
    \/ \E t \in PThreads, s \in Slots, allocOK \in BOOLEAN :
           InsertAlloc(t, s, allocOK)
    \/ \E t \in PThreads : InsertLink(t)
    \/ \E t \in PThreads, s \in Slots : UseRead(t, s)
    \/ \E t \in PThreads : UseCas01(t)
    \/ \E t \in PThreads : UseFetch(t)
    \/ \E t \in PThreads : UseClear(t)
    \/ \E t \in PThreads : UseRefetch(t)
    \/ \E t \in PThreads : UseStore(t)
    \/ \E t \in PThreads : UseCas12(t)
    \/ \E t \in PThreads, s \in Slots \cup {0} : EvictUnlink(t, s)
    \/ \E t \in PThreads : EvictFree(t)

\* the slots of the calls that have not returned
SlotsInCall == { pth[t].s : t \in { u \in PThreads : pth[u].pc # "idle" } }

\* the policy used by several threads that keep to one thread per slot: a
\* touch starts on a slot no other call is using, and the evicts are
\* evict(NULL)
PolicyExclNext ==
    \/ \E t \in PThreads, s \in Slots, allocOK \in BOOLEAN :
           InsertAlloc(t, s, allocOK)
    \/ \E t \in PThreads : InsertLink(t)
    \/ \E t \in PThreads, s \in Slots \ SlotsInCall : UseRead(t, s)
    \/ \E t \in PThreads : UseCas01(t)
    \/ \E t \in PThreads : UseFetch(t)
    \/ \E t \in PThreads : UseClear(t)
    \/ \E t \in PThreads : UseRefetch(t)
    \/ \E t \in PThreads : UseStore(t)
    \/ \E t \in PThreads : UseCas12(t)
    \/ \E t \in PThreads : EvictUnlink(t, 0)
    \/ \E t \in PThreads : EvictFree(t)

(***************************************************************************)
(* Specifications.                                                         *)
(***************************************************************************)
\* the state after critnib_new and repl_p_lru_new
Init == IndexInit /\ PolicyInit

\* the same, for the specifications that exercise the policy only
InitPolicy == IndexIdle /\ PolicyInit

\* the index, inserts and lookups only
SpecInsert ==
    Init /\ [][InsertNext]_vars

\* the index, inserts, lookups and removes
SpecIndex ==
    Init /\ [][IndexNext]_vars

\* the divergence point of one pair of key bytes
SpecShift ==
    Init /\ [][ShiftNext]_vars

\* the index, called by several threads
SpecIndexConc ==
    Init /\ [][IndexConcNext]_vars

\* the policy, called by several threads
SpecPolicyConc ==
    InitPolicy /\ [][PolicyConcNext]_vars

\* the policy, called by several threads, one thread per slot at a time
SpecPolicyExcl ==
    InitPolicy /\ [][PolicyExclNext]_vars

\* the policy, called by one thread that never touches
SpecPolicyFifo ==
    InitPolicy
        /\ [][FifoNext /\ FifoObserve /\ UNCHANGED ord]_vars

\* the policy, called by one thread
SpecPolicy ==
    InitPolicy
        /\ [][PolicyNext /\ AcctObserve /\ UNCHANGED ord]_vars

\* the policy, called by one thread, with the history of the touch calls
SpecPolicyOrder ==
    InitPolicy
        /\ [][PolicyNext /\ OrdObserve /\ UNCHANGED acct]_vars

(***************************************************************************)
(* Claims about the index.                                                 *)
(***************************************************************************)
SetOps == { "set_" \o a : a \in AllocOutcomes }

\* the number of internal nodes of a trie
RECURSIVE CountNodes(_)
RECURSIVE SumNodes(_, _)
SumNodes(n, i) ==
    IF i = SLNODES THEN 0 ELSE CountNodes(n.child[i]) + SumNodes(n, i + 1)
CountNodes(n) == IF n = NULL \/ is_leaf(n) THEN 0 ELSE 1 + SumNodes(n, 0)

\* C1: after any sequence of inserts with no remove, the lookup of every
\* inserted key returns the entry of that key's first successful insert, and
\* the lookup of a key that was never inserted returns NULL; the lookups the
\* callers made returned just that.
C1_LookupAfterInserts ==
    /\ \A e \in Entries : critnib_get(root, e) = present[KeyOf(e)]
    /\ lastOp.op = "get" => lastOp.ret = present[KeyOf(lastOp.e)]

\* a second entry with the bytes of a present key was refused while the index
\* holds MaxLeaves keys, below one node at least
C1_Witness ==
    /\ NumPresent = MaxLeaves
    /\ CountNodes(root) >= 2
    /\ lastOp.op = "set_ok"
    /\ lastOp.ret = EEXIST
    /\ present[KeyOf(lastOp.e)] # lastOp.e
    /\ \E e \in Entries : present[KeyOf(e)] = NULL

\* C2: a remove of a present key returns the entry stored for it, the key's
\* lookup then returns NULL, and the lookup of every other key returns what it
\* returned before the remove.
C2_RemovePresent ==
    [][(lastOp'.op = "remove" /\ present[KeyOf(lastOp'.e)] # NULL) =>
          /\ lastOp'.ret = present[KeyOf(lastOp'.e)]
          /\ critnib_get(root', lastOp'.e) = NULL
          /\ \A e \in Entries :
                 KeyOf(e) # KeyOf(lastOp'.e) =>
                     /\ critnib_get(root', e) = critnib_get(root, e)
                     /\ critnib_get(root', e) = present[KeyOf(e)]]_vars

\* a present key was removed from under a node that keeps two other keys
C2_Witness ==
    /\ lastOp.op = "remove"
    /\ lastOp.ret # NULL
    /\ NumPresent = MaxLeaves - 1
    /\ CountNodes(root) >= 1

RECURSIVE NodesOf(_)
NodesOf(n) ==
    IF n = NULL \/ is_leaf(n) THEN {}
    ELSE {n} \cup UNION { NodesOf(n.child[i]) : i \in 0..(SLNODES - 1) }

\* C12: after any completed insert or remove, every internal node has at
\* least two non-empty child slots.
C12_AtLeastTwoChildren ==
    \A n \in NodesOf(root) : NumChildren(n) >= 2

\* a remove has shortened an edge (its leaf's parent was left with one child)
\* below a node that stays, in a trie with a node made by the sign of a char
C12_Witness ==
    /\ lastOp.op = "remove" /\ lastOp.ret # NULL
    /\ Cardinality(NodesOf(root)) = 1
    /\ NumPresent = 2
    /\ \E n \in NodesOf(root) : n.bit = 28

\* the leaves of a trie
RECURSIVE LeavesOf(_)
LeavesOf(n) ==
    IF n = NULL THEN {}
    ELSE IF is_leaf(n) THEN {n}
    ELSE UNION { LeavesOf(n.child[i]) : i \in 0..(SLNODES - 1) }

\* the nibble offsets of a byte that come before the offset bit (the higher
\* nibble comes first)
EarlierBits(bit) == { b \in {0, SLICE} : b > bit }

\* whether two keys agree on every nibble before the nibble (byte, bit)
AgreeBefore(k1, k2, byte, bit) ==
    /\ \A j \in 0..(byte - 1) : KeyAt(k1, j) = KeyAt(k2, j)
    /\ \A b \in EarlierBits(bit) :
           slice_index(KeyAt(k1, byte), b) = slice_index(KeyAt(k2, byte), b)

\* C13: in every state reached by inserts and removes, the keys of the
\* leaves below an internal node reach the node's byte and agree on every
\* nibble before the node's (byte, bit), and the key of every leaf below
\* child slot i has the value i at (byte, bit).
C13_PrefixAgreement ==
    \A n \in NodesOf(root) :
        /\ \A k1, k2 \in LeavesOf(n) :
               /\ k1.key_len > n.byte
               /\ AgreeBefore(k1.key, k2.key, n.byte, n.bit)
        /\ \A i \in 0..(SLNODES - 1) :
               \A k \in LeavesOf(n.child[i]) :
                   slice_index(KeyAt(k.key, n.byte), n.bit) = i

\* an insert has put a node that tells the low nibble of a byte below a
\* node that tells the high nibble of the same byte
C13_Witness ==
    /\ lastOp.op = "set_ok" /\ lastOp.ret = 0
    /\ root # NULL /\ ~is_leaf(root)
    /\ root.bit = SLICE
    /\ \E i \in 0..(SLNODES - 1) :
           /\ root.child[i] # NULL /\ ~is_leaf(root.child[i])
           /\ root.child[i].byte = root.byte
           /\ root.child[i].bit = 0

\* C20: for every trie reached by inserts and removes and every key that is
\* not in it, a successful insert of the key followed by its remove returns
\* the inserted entry and leaves the trie it started from: the same root,
\* nodes and leaves.
C20_InsertRemoveRoundTrip ==
    \A e \in Entries :
        present[KeyOf(e)] = NULL =>
            LET s == critnib_set(root, e, TRUE, TRUE)
            IN s.ret = 0 =>
                   /\ s.root # root
                   /\ critnib_remove(s.root, e) = [ret |-> e, root |-> root]

\* a remove has left a trie with an internal node in which the insert of an
\* absent key adds an internal node and the insert of another one does not
C20_Witness ==
    /\ lastOp.op = "remove" /\ lastOp.ret # NULL
    /\ root # NULL /\ ~is_leaf(root)
    /\ \E e1, e2 \in Entries :
           /\ present[KeyOf(e1)] = NULL /\ present[KeyOf(e2)] = NULL
           /\ LET s1 == critnib_set(root, e1, TRUE, TRUE)
                  s2 == critnib_set(root, e2, TRUE, TRUE)
              IN /\ s1.ret = 0 /\ s2.ret = 0
                 /\ Cardinality(NodesOf(s1.root))
                        > Cardinality(NodesOf(root))
                 /\ Cardinality(NodesOf(s2.root))
                        = Cardinality(NodesOf(root))

\* C14: for every pair of differing key bytes, the bit offset that insert
\* gives the new internal node is 0 or 4.
C14_BitOffsetZeroOrFour ==
    lastOp.op = "shift" => lastOp.ret \in {0, SLICE}

\* the threads that are in their trie section
InSection == { t \in IThreads : ith[t].pc # "idle" }

\* C4: in any interleaving of threads calling insert, lookup and remove, no
\* two calls are in their trie-reading or trie-writing section at the same
\* time.
C4_MutexSerializes ==
    \A t1, t2 \in InSection : t1 = t2

(***************************************************************************)
(* Claims about the policy used by one thread.                             *)
(***************************************************************************)
\* the slots of the nodes on the list, in list order
ListSlots(p) == [i \in 1..Len(p.first) |-> p.ent[p.first[i]].ptr_entry]

IsPrefix(a, b) == Len(a) <= Len(b) /\ \A i \in 1..Len(a) : a[i] = b[i]

NoDuplicates(q) == \A i, j \in 1..Len(q) : q[i] = q[j] => i = j

\* C5: with no touch, the evict(NULL) calls return the attached data in the
\* order of the attaches, and evict(NULL) returns NULL just when every
\* attached data has been returned (the list is empty).
C5_FifoWithoutTouch ==
    /\ IsPrefix(acct.evicted, acct.attached)
    /\ (pLast.op = "evict" /\ pLast.ret = 0) => acct.evicted = acct.attached
    /\ (pLast.op = "evict" /\ pLast.ret # 0)
           => pLast.ret = acct.evicted[Len(acct.evicted)]
    /\ ListSlots(rp) =
           [i \in 1..(Len(acct.attached) - Len(acct.evicted)) |->
                SlotOfData(acct.attached[Len(acct.evicted) + i])]

\* NSlots data were attached, not in the order of their slots, and all
\* returned in the order of the attaches, and one more evict(NULL) returned
\* NULL
C5_Witness ==
    /\ Len(acct.attached) = NSlots
    /\ acct.evicted = acct.attached
    /\ acct.attached[1] # DataOf(1)
    /\ pLast.op = "evict" /\ pLast.ret = 0

\* the slots a drain may leave at the head of the list: the never touched
\* ones, and the one that comes first in the order q of the touched ones
HeadCandidates(p, q) ==
    LET on == Elems(ListSlots(p))
        ranked == SelectSeq(q, LAMBDA x : x \in on)
    IN { x \in on : x \notin Elems(ord.lastTouch) }
           \cup (IF ranked = <<>> THEN {} ELSE {Head(ranked)})

\* C7 as stated: after a drain the list head is a never touched node or the
\* node whose most recent touch call is the oldest, among the nodes on the
\* list before the drain.
C7_HeadLeastRecentlyTouched ==
    [][(pLast'.drained /\ rp.first # <<>>) =>
          ord'.drainHead \in HeadCandidates(rp, ord.lastTouch)]_vars

\* C7 as amended: after a drain the list head is a never touched node or the
\* node for which the first touch call since the drain before it (the one
\* touch call of a drain cycle that enters the node in the touched buffer) is
\* the oldest, among the nodes on the list before the drain.
C7_HeadLeastRecentlyBuffered ==
    [][(pLast'.drained /\ rp.first # <<>>) =>
          ord'.drainHead \in HeadCandidates(rp, ord.effTouch)]_vars

\* a drain left at the head a node that was touched, while every node on the
\* list had been touched and one of them twice since the drain before
C7_Witness ==
    /\ pLast.drained
    /\ ord.drainHead # 0
    /\ pLast.op = "evict"
    /\ Len(rp.first) >= 1
    /\ \A i \in 1..Len(rp.first) :
           rp.ent[rp.first[i]].ptr_entry \in Elems(ord.effTouch)
    /\ ord.effTouch # ord.lastTouch

\* C8: every data an evict returns was attached before and is returned once,
\* and the evicts returned as many data as were attached and are no longer
\* on the list.
C8_EvictAccounting ==
    /\ NoDuplicates(acct.evicted)
    /\ Elems(acct.evicted) \subseteq Elems(acct.attached)
    /\ Len(acct.evicted) = Len(acct.attached) - Len(rp.first)
    /\ Elems(ListSlots(rp)) =
           { SlotOfData(d) : d \in Elems(acct.attached) \ Elems(acct.evicted) }
    /\ (pLast.op = "evict" /\ pLast.ret # 0)
           => pLast.ret \in Elems(acct.evicted)

\* all the data but one were returned, the last one by an evict(NULL) that
\* drained the touched buffer; the first attached is still on the list
C8_Witness ==
    /\ Len(acct.attached) = NSlots
    /\ Len(acct.evicted) = NSlots - 1
    /\ pLast.op = "evict" /\ pLast.slot = 0 /\ pLast.ret # 0
    /\ pLast.drained
    /\ rp.first = <<1>>

\* C9: evict(slot) of an attached slot returns the data attached with the
\* slot, takes that node alone off the list (the others keep their order),
\* nulls the slot and, when the node's flag is 2, its touched-buffer entry;
\* evict(slot) of a null slot returns NULL and changes nothing.
C9_TargetedEvict ==
    [][(pLast'.op = "evict" /\ pLast'.slot # 0) =>
          LET s == pLast'.slot
              entry == rp.slot[s]
          IN IF entry = 0
             THEN pLast'.ret = 0 /\ rp' = rp
             ELSE /\ pLast'.ret = DataOf(s)
                  /\ DataOf(s) \in Elems(acct.attached)
                  /\ ListSlots(rp') = Without(ListSlots(rp), s)
                  /\ rp'.first = Without(rp.first, entry)
                  /\ rp'.slot = [rp.slot EXCEPT ![s] = 0]
                  /\ rp'.n_used = rp.n_used
                  /\ rp'.used =
                         IF rp.ent[entry].was_used = 2
                         THEN [rp.used EXCEPT ![rp.ent[entry].i_used] = 0]
                         ELSE rp.used
                  /\ \A i \in UsedIdx : rp'.used[i] # entry
                  /\ \A a \in Addrs : a # entry => rp'.ent[a] = rp.ent[a]
                  /\ ~rp'.ent[entry].alloc]_vars

\* a touched node was evicted by its slot from the middle of the list, and
\* its touched-buffer entry was cleared
C9_Witness ==
    /\ pLast.op = "evict" /\ pLast.slot # 0 /\ pLast.ret # 0
    /\ Len(rp.first) = 2
    /\ rp.n_used = 2
    /\ rp.used[0] = 0 /\ rp.used[1] # 0
    /\ acct.evicted = <<pLast.ret>>
    /\ Len(acct.attached) = NSlots
    /\ rp.slot[pLast.slot] = 0

\* C15: in every reachable state a caller's slot is null or points at the
\* node made by the attach that was given the slot, which exists; the
\* ptr_entry of every node names the slot it was attached with, and that
\* slot points at the node or is null, and at the node while the node is on
\* the list.
C15_BackPointer ==
    /\ \A s \in Slots :
           rp.slot[s] # 0 =>
               /\ rp.ent[rp.slot[s]].alloc
               /\ rp.ent[rp.slot[s]].ptr_entry = s
               /\ rp.ent[rp.slot[s]].data = DataOf(s)
               /\ s \in rp.given
    /\ \A a \in Addrs :
           rp.ent[a].alloc =>
               /\ rp.ent[a].ptr_entry \in Slots
               /\ rp.slot[rp.ent[a].ptr_entry] \in {0, a}
               /\ InList(rp.first, a) => rp.slot[rp.ent[a].ptr_entry] = a

\* an attach has returned a node while the slot of an evicted node is null
\* and the slot of another node points at it
C15_Witness ==
    /\ pLast.op = "insert" /\ pLast.ret # 0
    /\ \E s \in rp.given : rp.slot[s] = 0
    /\ \E s \in Slots : rp.slot[s] # 0 /\ rp.slot[s] # pLast.ret

(***************************************************************************)
(* Claims about the policy used by several threads.                        *)
(***************************************************************************)
\* the slots on the list p.first that no touch was called with since the
\* last drain
Untouched(p) == Elems(ListSlots(p)) \ (touched \cup InFlight)

\* whether slot x sits nearer the tail of the list of p than slot y
NearerTail(p, x, y) ==
    \E i, j \in 1..Len(p.first) :
        /\ ListSlots(p)[i] = y /\ ListSlots(p)[j] = x
        /\ i < j

\* C6: in any interleaving, when a touch of node X has returned since the
\* previous drain and node Y is on the list untouched since then, the next
\* drain leaves X nearer the tail than Y: a drain by a touch that found the
\* buffer full leaves every such X behind every such Y, and an evict(NULL),
\* which takes the head that its drain leaves, does not take such an X while
\* such a Y is on the list.
C6_TouchedRanksAfterUntouched ==
    [][\A t \in PThreads :
          /\ (pth[t].pc = "use_clear" /\ pth'[t].pc = "use_refetch"
                  /\ rp.n_used >= rp.max_used)
                 => \A x \in touched \cap Elems(ListSlots(rp')) :
                        \A y \in Untouched(rp') : NearerTail(rp', x, y)
          /\ (pth[t].pc = "idle" /\ pth'[t].pc = "evict_free"
                  /\ pth'[t].s = 0)
                 => (rp.ent[pth'[t].entry].ptr_entry \in touched
                        => Untouched(rp') = {})]_vars

\* C10: in any interleaving of a touch with an evict, every step of touch
\* that reads or writes its node (the two compare-and-swaps of was_used and
\* the stores of i_used and of the node into the touched buffer) finds the
\* node allocated.
C10_TouchNeverUsesFreedNode ==
    [][\A t \in PThreads :
          (pth[t].pc \in {"use_cas01", "use_store", "use_cas12"}
              /\ pth'[t] # pth[t])
             => rp.ent[pth[t].entry].alloc]_vars

\* C11: when every slot is touched by one thread at a time, the final
\* compare-and-swap of was_used from 1 to 2 in touch succeeds: no step of
\* touch reaches abort().
C11_TouchNeverAborts ==
    [][\A t \in PThreads :
          (pth[t].pc = "use_cas12" /\ pth'[t] # pth[t])
             => (rp.ent[pth[t].entry].alloc
                    => (rp.ent[pth[t].entry].was_used = 1
                           /\ rp'.fault # "abort"))]_vars

\* the changes of was_used the tri-state protocol allows
FlagSteps == { <<0, 0>>, <<1, 1>>, <<2, 2>>, <<0, 1>>, <<1, 2>>, <<2, 0>> }

\* the threads whose touch is reserving a touched-buffer slot for node a:
\* past the first compare-and-swap and before the return
Reserving(a) ==
    { t \in PThreads :
        /\ pth[t].pc \in UsePcs \ {"use_cas01"}
        /\ pth[t].entry = a }

\* C16: in any interleaving of touches, drains and evictions the was_used
\* of a node only changes 0 -> 1 -> 2 -> 0, and (a reservation following a
\* change 0 -> 1) no two touches are reserving a touched-buffer slot for the
\* same node.
C16_TriStateFlag ==
    [][\A a \in Addrs :
          (rp.ent[a].alloc /\ rp'.ent[a].alloc) =>
              /\ <<rp.ent[a].was_used, rp'.ent[a].was_used>> \in FlagSteps
              /\ Cardinality(Reserving(a)) <= 1]_vars

\* C17: in any interleaving of touch calls, every index that get_used_index
\* returns, and that touch then writes head->used at, is less than max_used.
C17_UsedIndexInBounds ==
    [][\A t \in PThreads :
          /\ (pth[t].pc \in {"use_fetch", "use_refetch"}
                  /\ pth'[t].pc = "use_store")
                 => pth'[t].index < rp.max_used
          /\ (pth[t].pc = "use_store" /\ pth'[t] # pth[t])
                 => pth[t].index < rp.max_used]_vars

\* the live nodes: allocated, and not unlinked by an evict that is about to
\* free them
Live(a) ==
    /\ rp.ent[a].alloc
    /\ \A t \in PThreads : ~(pth[t].pc = "evict_free" /\ pth[t].entry = a)

\* C18: in every state reached under concurrent touch, drain and evict, a
\* live node whose was_used is 2 is recorded in the touched buffer at its
\* own i_used, below n_used; hence no two live nodes with was_used 2 claim
\* one index.
C18_BufferAgreement ==
    \A a \in Addrs :
        (Live(a) /\ rp.ent[a].was_used = 2) =>
            /\ rp.ent[a].i_used \in UsedIdx
            /\ rp.used[rp.ent[a].i_used] = a
            /\ rp.ent[a].i_used < rp.n_used
            /\ \A b \in Addrs \ {a} :
                   (Live(b) /\ rp.ent[b].was_used = 2)
                      => rp.ent[b].i_used # rp.ent[a].i_used

\* C19: in any interleaving of attach, touch and evict, every non-null
\* entry of the touched buffer refers to a node that is allocated and linked
\* on the list, so that a drain moves, and an evict unlinks, only linked
\* nodes that were not freed.
C19_BufferedNodesLinked ==
    /\ \A i \in UsedIdx :
           rp.used[i] # 0 =>
               /\ rp.ent[rp.used[i]].alloc
               /\ InList(rp.first, rp.used[i])
    /\ rp.fault \notin {"not_linked", "use_after_free"}

=============================================================================
